---- MODULE Spec2Model ----
(***************************************************************************)
(* powpow: the pipe-style grep and cat of src/powpow/unixy.py and the      *)
(* cached_property backport of src/powpow/_backports.py.                   *)
(*                                                                         *)
(* A text is a sequence of one-character strings; offsets are 0-based as   *)
(* in Python, so the character at offset i of text is text[i + 1].  An     *)
(* optional value is a sequence of length 0 (None, or a missing cache      *)
(* slot) or 1.                                                             *)
(***************************************************************************)
EXTENDS Integers, Sequences, FiniteSets, TLC

\* ------------------------------------------------------------------ bounds
MaxTextLen == 3
MaxPatLen == 2
MaxLatePatLen == 1
MaxChainTextLen == 2
MaxFileLen == 1
MaxArgs == 2
NumThreads == 2

\* --------------------------------------------------------------- constants
\* The two markers are single elements of a rendered text: ESC stands for
\* the escape character U+001B.
NL == "\n"
BACKSLASH == "\\"
ANSI_RED == "ESC[31m"
ANSI_RESET == "ESC[0m"

\* The characters the bounded texts and patterns are drawn from: a letter,
\* a regular-expression metacharacter and the line terminator.
Alphabet == {"a", ".", NL}

SeqsUpTo(S, n) == UNION {[1..k -> S] : k \in 0..n}

Scenario2Text ==
    <<"t","h","i","s",NL, "i","s",NL, "a",NL, "s","t","r","i","n","g",NL>>
Scenario5Text ==
    <<"T","h","i","s"," ","i","s"," ","w","h","a","t"," ",
      "w","e","'","l","l"," ","g","r","e","p">>
PatI == <<"i">>
PatThis == <<"T","h","i","s">>
PatWell == <<"w","e","'","l","l">>

Min(a, b) == IF a < b THEN a ELSE b

None == <<>>
Some(v) == <<v>>
IsNone(o) == Len(o) = 0
Get(o) == o[1]

\* ------------------------------------------------------- Python primitives
\* text[a:b] for 0 <= a, 0 <= b: both ends are clamped to the text.
Slice(text, a, b) ==
    IF a >= Min(b, Len(text)) THEN <<>> ELSE SubSeq(text, a + 1, Min(b, Len(text)))

RECURSIVE Join(_)
\* ''.join(parts)
Join(parts) ==
    IF Len(parts) = 0 THEN <<>> ELSE Head(parts) \o Join(Tail(parts))

RECURSIVE RStripNL(_)
\* s.rstrip('\n')
RStripNL(s) ==
    IF Len(s) > 0 /\ s[Len(s)] = NL THEN RStripNL(SubSeq(s, 1, Len(s) - 1)) ELSE s

\* re.escape: the characters of the pattern that the regular-expression
\* syntax gives a meaning to are prefixed with a backslash.
SpecialChars ==
    {"(", ")", "[", "]", "{", "}", "?", "*", "+", "-", "|", "^", "$", "\\",
     ".", "&", "~", "#", " ", "\t", "\n", "\r", "\f"}

\* Faulty variant of ReEscape: the pattern is compiled as it stands
ReEscapeNothing(pattern) == pattern

RECURSIVE ReEscape(_)
ReEscape(pattern) ==
    IF Len(pattern) = 0 THEN <<>>
    ELSE (IF Head(pattern) \in SpecialChars
            THEN <<BACKSLASH, Head(pattern)>>
            ELSE <<Head(pattern)>>) \o ReEscape(Tail(pattern))

RECURSIVE RxMatchFrom(_, _, _, _)
\* The regular expression rx (from element i on) matched at offset pos of
\* text: the offset after the match, or -1.  A backslash makes the next
\* character literal, an unescaped "." is any character but the line
\* terminator, every other character is itself.
RxMatchFrom(rx, i, text, pos) ==
    IF i > Len(rx) THEN pos
    ELSE IF rx[i] = BACKSLASH /\ i < Len(rx)
        THEN IF pos < Len(text) /\ text[pos + 1] = rx[i + 1]
                THEN RxMatchFrom(rx, i + 2, text, pos + 1) ELSE -1
    ELSE IF rx[i] = "."
        THEN IF pos < Len(text) /\ text[pos + 1] # NL
                THEN RxMatchFrom(rx, i + 1, text, pos + 1) ELSE -1
    ELSE IF pos < Len(text) /\ text[pos + 1] = rx[i]
        THEN RxMatchFrom(rx, i + 1, text, pos + 1) ELSE -1

RECURSIVE FindIterFrom(_, _, _)
\* re.finditer(rx, text) for an expression that matches no empty string:
\* the leftmost match at or after pos, then the scan resumes at its end.
FindIterFrom(rx, text, pos) ==
    IF pos >= Len(text) THEN <<>>
    ELSE LET e == RxMatchFrom(rx, 1, text, pos) IN
         IF e > pos
            THEN <<[start |-> pos, end |-> e]>> \o FindIterFrom(rx, text, e)
            ELSE FindIterFrom(rx, text, pos + 1)

\* grep._match
GrepMatch(pattern, text) == FindIterFrom(ReEscape(pattern), text, 0)

\* re.finditer('$', text, re.MULTILINE): the start offsets, ascending.  '$'
\* matches before every line terminator and at the end of the text.
RECURSIVE DollarFrom(_, _)
DollarFrom(text, pos) ==
    IF pos > Len(text) THEN <<>>
    ELSE (IF pos = Len(text) \/ text[pos + 1] = NL THEN <<pos>> ELSE <<>>)
         \o DollarFrom(text, pos + 1)

DollarStarts(text) == DollarFrom(text, 0)

RECURSIVE EndOfLine(_, _)
\* the offset of the first '$' at or after pos
EndOfLine(text, pos) ==
    IF pos = Len(text) \/ text[pos + 1] = NL THEN pos ELSE EndOfLine(text, pos + 1)

RECURSIVE CaretLineFrom(_, _)
\* re.finditer('^.*$', text, re.MULTILINE): '^' matches at offset 0 and
\* after every line terminator (also the last one), '.*' runs to the next
\* '$'.  One [start, end] per line, the terminator excluded.
CaretLineFrom(text, pos) ==
    IF pos > Len(text) THEN <<>>
    ELSE IF pos = 0 \/ text[pos] = NL
        THEN <<[start |-> pos, end |-> EndOfLine(text, pos)]>>
             \o CaretLineFrom(text, EndOfLine(text, pos) + 1)
        ELSE CaretLineFrom(text, pos + 1)

CaretLineSpans(text) == CaretLineFrom(text, 0)

\* ------------------------------------------------------------- GrepResult
\* A dict is the sequence of its [key, val] items in insertion order.
DictKeys(d) == [i \in 1..Len(d) |-> d[i].key]

\* defaultdict(list): d[k].append(m)
DictAppend(d, k, m) ==
    IF \E i \in 1..Len(d) : d[i].key = k
        THEN [i \in 1..Len(d) |->
                IF d[i].key = k THEN [key |-> k, val |-> Append(d[i].val, m)]
                ELSE d[i]]
        ELSE Append(d, [key |-> k, val |-> <<m>>])

RECURSIVE AdvanceLine(_, _, _)
\* the while loop of line_matches: cur is [idx, start, end] of the current
\* line, dollars the newline iterator, of which cur.idx + 1 items are
\* consumed.  The iterator is never exhausted: a match starts before the
\* end of the input, where the last '$' is.
AdvanceLine(dollars, cur, pos) ==
    IF cur.start <= pos /\ pos < cur.end THEN cur
    ELSE AdvanceLine(dollars,
                     [idx |-> cur.idx + 1, start |-> cur.end,
                      end |-> dollars[cur.idx + 2] + 1],
                     pos)

RECURSIVE GroupByLine(_, _, _, _)
\* the for loop of line_matches
GroupByLine(dollars, cur, matches, acc) ==
    IF Len(matches) = 0 THEN acc
    ELSE LET at == AdvanceLine(dollars, cur, Head(matches).start) IN
         GroupByLine(dollars, at, Tail(matches),
                     DictAppend(acc, at.idx, Head(matches)))

\* Faulty variant of ComputeLineMatches: every match is put on the line of the first
ComputeLineMatchesOneLine(input, matches) ==
    LET dollars == DollarStarts(input) IN
    IF Len(matches) = 0 THEN <<>>
    ELSE <<[key |-> AdvanceLine(dollars,
                                [idx |-> 0, start |-> 0, end |-> dollars[1] + 1],
                                Head(matches).start).idx,
            val |-> matches]>>

\* GrepResult.line_matches (the wrapped function)
ComputeLineMatches(input, matches) ==
    LET dollars == DollarStarts(input) IN
    GroupByLine(dollars, [idx |-> 0, start |-> 0, end |-> dollars[1] + 1],
                matches, <<>>)

\* Faulty variant of ComputeMatchedLines: the line spans without the terminator
ComputeMatchedLinesNoNewline(input, line_matches) ==
    LET line_spans == CaretLineSpans(input)
        keys == DictKeys(line_matches)
    IN [i \in 1..Len(keys) |->
          Slice(input, line_spans[keys[i] + 1].start, line_spans[keys[i] + 1].end)]

\* GrepResult.matched_lines (the wrapped function)
ComputeMatchedLines(input, line_matches) ==
    LET line_spans == CaretLineSpans(input)
        keys == DictKeys(line_matches)
    IN [i \in 1..Len(keys) |->
          Slice(input, line_spans[keys[i] + 1].start,
                line_spans[keys[i] + 1].end + 1)]

RECURSIVE ColorizeMatches(_, _, _)
\* the inner loop of _colorized: [buf, start]
ColorizeMatches(input, start, matches) ==
    IF Len(matches) = 0 THEN [buf |-> <<>>, start |-> start]
    ELSE LET m == Head(matches)
             rest == ColorizeMatches(input, m.end, Tail(matches))
         IN [buf |-> Slice(input, start, m.start)
                     \o <<ANSI_RED>> \o Slice(input, m.start, m.end)
                     \o <<ANSI_RESET>> \o rest.buf,
             start |-> rest.start]

RECURSIVE ColorizeLines(_, _, _, _)
\* the outer loop of _colorized over zip(matched_lines, keys, values)
ColorizeLines(input, line_spans, line_matches, n) ==
    IF Len(line_matches) = 0 \/ n = 0 THEN <<>>
    ELSE LET item == Head(line_matches)
             span == line_spans[item.key + 1]
             done == ColorizeMatches(input, span.start, item.val)
         IN done.buf \o Slice(input, done.start, span.end + 1)
            \o ColorizeLines(input, line_spans, Tail(line_matches), n - 1)

\* GrepResult._colorized (the wrapped function)
Colorized(input, matched_lines, line_matches) ==
    ColorizeLines(input, CaretLineSpans(input), line_matches, Len(matched_lines))

\* GrepResult.__init__
NewGrepResult(pattern, string, matches, highlight) ==
    [input |-> string, pattern |-> pattern, matches |-> matches,
     str |-> None, highlight |-> highlight,
     line_matches |-> None, matched_lines |-> None]

\* cached_property.__get__ of line_matches with no other thread about: the
\* object with the slot filled.
WithLineMatches(r) ==
    IF IsNone(r.line_matches)
        THEN [r EXCEPT !.line_matches = Some(ComputeLineMatches(r.input, r.matches))]
        ELSE r

\* cached_property.__get__ of matched_lines, which reads self.line_matches
WithMatchedLines(r) ==
    IF IsNone(r.matched_lines)
        THEN LET q == WithLineMatches(r) IN
             [q EXCEPT !.matched_lines =
                Some(ComputeMatchedLines(q.input, Get(q.line_matches)))]
        ELSE r

\* GrepResult.__str__: the object after the call; the value is Get(.str)
WithStr(r) ==
    IF IsNone(r.str)
        THEN LET q == WithMatchedLines(r) IN
             [q EXCEPT !.str = Some(Join(Get(q.matched_lines)))]
        ELSE r

\* Faulty variant of BoolOf: truthy when the canonical value is not empty input
BoolOfInput(r) == Len(r.input) > 0

\* GrepResult.__bool__
BoolOf(r) == Len(r.matches) > 0

\* Faulty variant of HashKey: the canonical value alone
HashKeyStrOnly(r) == <<Get(WithStr(r).str)>>

\* GrepResult.__hash__: the tuple handed to hash()
HashKey(r) == <<Get(WithStr(r).str), r.pattern>>

\* ------------------------------------------------------------------- cat
\* Path(path)
ToPath(name) == [path |-> name]

\* CatResult.__init__
NewCatResult(paths, contents) == [paths |-> paths, contents |-> contents, str |-> None]

\* Faulty variant of CatWithStr: the contents joined with a line terminator
CatWithStrSeparated(c) ==
    IF IsNone(c.str)
        THEN [c EXCEPT !.str =
                Some(Join([i \in 1..Len(c.contents) |->
                            IF i = 1 THEN c.contents[i] ELSE <<NL>> \o c.contents[i]]))]
        ELSE c

\* CatResult.__str__: the object after the call
CatWithStr(c) ==
    IF IsNone(c.str) THEN [c EXCEPT !.str = Some(Join(c.contents))] ELSE c

\* io.StringIO(initial_value) and its read()
StringIO(value) == [buf |-> value, pos |-> 0]
ReadAll(f) == Slice(f.buf, f.pos, Len(f.buf))

\* ------------------------------------------------------------------ state
VARIABLES
    text,     \* the plain string the session pipes into grep
    args,     \* the arguments the session hands to cat (path names)
    fs,       \* the file system: path name -> optional content
    cat,      \* optional CatResult
    res,      \* "r1", "r2" -> optional GrepResult, the pipeline's stages
    lru,      \* the one entry of _colorized's lru_cache(maxsize=1), optional
    hashes,   \* "r1", "r2" -> optional key returned by the last hash()
    out,      \* what the last operation returned or raised
    nstr,     \* object -> number of assignments to its _str slot
    th,       \* thread -> its place in its call: [pc, top, prop, obj, lm, val, ret]
    locks     \* cached property -> [owner, count] of its RLock

vars == <<text, args, fs, cat, res, lru, hashes, out, nstr, th, locks>>

Stages == {"r1", "r2"}
PathNames == {"f", "g", "nofile"}
Threads == 1..NumThreads
Properties == {"matched_lines", "line_matches"}

Texts == SeqsUpTo(Alphabet, MaxTextLen) \cup {Scenario2Text}
Patterns == SeqsUpTo(Alphabet, MaxPatLen) \cup {PatI}
CatPatterns == SeqsUpTo(Alphabet, MaxLatePatLen)
FileTexts == SeqsUpTo(Alphabet, MaxFileLen)
OtherFileText == <<".", NL>>
ArgLists == SeqsUpTo(PathNames, MaxArgs) \ {<<>>}

Returned(op, who, arg, val) == [op |-> op, who |-> who, arg |-> arg, val |-> val]
Raised(who, exc) == [op |-> "raise", who |-> who, arg |-> "", val |-> exc]

\* top is what the thread's caller asked for: "str" or a cached property
IdleThread ==
    [pc |-> "idle", top |-> "", prop |-> "", obj |-> "", lm |-> None, val |-> None,
     ret |-> None]

InitObjects ==
    /\ cat = None
    /\ res = [w \in Stages |-> None]
    /\ lru = None
    /\ hashes = [w \in Stages |-> None]
    /\ out = Returned("", "", "", None)
    /\ nstr = [o \in Stages \cup {"cat"} |-> 0]
    /\ th = [t \in Threads |-> IdleThread]
    /\ locks = [p \in Properties |-> [owner |-> 0, count |-> 0]]

NoFiles == [n \in PathNames |-> None]
Files(c) == [n \in PathNames |->
               IF n = "f" THEN Some(c) ELSE IF n = "g" THEN Some(OtherFileText) ELSE None]

\* a session that pipes a plain string
InitText(T) ==
    /\ text \in T
    /\ args = <<>>
    /\ fs = NoFiles
    /\ InitObjects

\* a session that cats files
InitCat(A, F) ==
    /\ text = <<>>
    /\ args \in A
    /\ fs \in {Files(c) : c \in F}
    /\ InitObjects

Init == InitText(Texts) \/ InitCat(ArgLists, FileTexts)

\* ---------------------------------------------------------------- actions
Bump(who, r) == IF IsNone(r.str) THEN [nstr EXCEPT ![who] = @ + 1] ELSE nstr

\* grep.__ror__ after grep.__init__: obj | grep(p, highlight=h), where obj
\* is the session's string (src = "text"), the first stage (src = "r1":
\* text = str(obj)) or the CatResult (src = "cat": text = pformat(obj),
\* which is repr(obj), which is str(obj)).  The result is stage who.
Pipe(who, src, p, h) ==
    /\ IsNone(res[who])
    /\ who = "r2" => ~IsNone(res["r1"])
    /\ src = "r1" => who = "r2"
    /\ src = "cat" => ~IsNone(cat)
    /\ \/ /\ Len(p) = 0
          /\ out' = Raised(who, "ValueError")
          /\ UNCHANGED <<res, cat, nstr>>
       \/ /\ Len(p) > 0
          /\ src = "text"
          /\ res' = [res EXCEPT ![who] =
                        Some(NewGrepResult(p, text, GrepMatch(p, text), h))]
          /\ out' = Returned("pipe", who, src, None)
          /\ UNCHANGED <<cat, nstr>>
       \/ /\ Len(p) > 0
          /\ src = "r1"
          /\ LET q == WithStr(Get(res["r1"]))
                 t == Get(q.str)
             IN res' = [res EXCEPT !["r1"] = Some(q),
                                   ![who] = Some(NewGrepResult(p, t, GrepMatch(p, t), h))]
          /\ nstr' = Bump("r1", Get(res["r1"]))
          /\ out' = Returned("pipe", who, src, None)
          /\ UNCHANGED cat
       \/ /\ Len(p) > 0
          /\ src = "cat"
          /\ LET c == CatWithStr(Get(cat))
                 t == Get(c.str)
             IN /\ cat' = Some(c)
                /\ res' = [res EXCEPT ![who] =
                             Some(NewGrepResult(p, t, GrepMatch(p, t), h))]
          /\ nstr' = Bump("cat", Get(cat))
          /\ out' = Returned("pipe", who, src, None)
    /\ UNCHANGED <<text, args, fs, lru, hashes, th, locks>>

\* str(result)
Str(who) ==
    /\ ~IsNone(res[who])
    /\ LET q == WithStr(Get(res[who])) IN
        /\ res' = [res EXCEPT ![who] = Some(q)]
        /\ out' = Returned("str", who, "", q.str)
    /\ nstr' = Bump(who, Get(res[who]))
    /\ UNCHANGED <<text, args, fs, cat, lru, hashes, th, locks>>

\* repr(result).  With highlight, _colorized goes through its lru_cache,
\* which looks the object up by hash() and ==, that is by (str, pattern).
Repr(who) ==
    /\ ~IsNone(res[who])
    /\ LET q == WithStr(Get(res[who]))
           key == HashKey(q)
           hit == ~IsNone(lru) /\ Get(lru).hash = key /\ Get(lru).str = q.str
           val == IF hit THEN Get(lru).val
                  ELSE Colorized(q.input, Get(q.matched_lines), Get(q.line_matches))
       IN /\ res' = [res EXCEPT ![who] = Some(q)]
          /\ IF q.highlight
                THEN /\ lru' = Some([hash |-> key, str |-> q.str, val |-> val])
                     /\ out' = Returned("repr", who, "", Some(RStripNL(val)))
                ELSE /\ lru' = lru
                     /\ out' = Returned("repr", who, "", q.str)
    /\ nstr' = Bump(who, Get(res[who]))
    /\ UNCHANGED <<text, args, fs, cat, hashes, th, locks>>

\* bool(result)
Bool(who) ==
    /\ ~IsNone(res[who])
    /\ out' = Returned("bool", who, "", Some(BoolOf(Get(res[who]))))
    /\ UNCHANGED <<text, args, fs, cat, res, lru, hashes, nstr, th, locks>>

\* result == other, other the session's string, the CatResult or the other
\* stage: str(self) == str(other)
Eq(who, other) ==
    /\ ~IsNone(res[who])
    /\ other # who
    /\ LET q == WithStr(Get(res[who])) IN
       \/ /\ other = "text"
          /\ res' = [res EXCEPT ![who] = Some(q)]
          /\ nstr' = Bump(who, Get(res[who]))
          /\ out' = Returned("eq", who, other, Some(Get(q.str) = text))
          /\ UNCHANGED cat
       \/ /\ other = "cat"
          /\ ~IsNone(cat)
          /\ LET c == CatWithStr(Get(cat)) IN
              /\ cat' = Some(c)
              /\ out' = Returned("eq", who, other, Some(Get(q.str) = Get(c.str)))
          /\ res' = [res EXCEPT ![who] = Some(q)]
          /\ nstr' = [nstr EXCEPT ![who] = Bump(who, Get(res[who]))[who],
                                  !["cat"] = Bump("cat", Get(cat))["cat"]]
       \/ /\ other \in Stages
          /\ ~IsNone(res[other])
          /\ LET o == WithStr(Get(res[other])) IN
              /\ res' = [res EXCEPT ![who] = Some(q), ![other] = Some(o)]
              /\ out' = Returned("eq", who, other, Some(Get(q.str) = Get(o.str)))
          /\ nstr' = [nstr EXCEPT ![who] = Bump(who, Get(res[who]))[who],
                                  ![other] = Bump(other, Get(res[other]))[other]]
          /\ UNCHANGED cat
    /\ UNCHANGED <<text, args, fs, lru, hashes, th, locks>>

\* hash(result)
Hash(who) ==
    /\ ~IsNone(res[who])
    /\ res' = [res EXCEPT ![who] = Some(WithStr(Get(res[who])))]
    /\ hashes' = [hashes EXCEPT ![who] = Some(HashKey(Get(res[who])))]
    /\ out' = Returned("hash", who, "", None)
    /\ nstr' = Bump(who, Get(res[who]))
    /\ UNCHANGED <<text, args, fs, cat, lru, th, locks>>

\* result.line_matches
LineMatches(who) ==
    /\ ~IsNone(res[who])
    /\ LET q == WithLineMatches(Get(res[who])) IN
        /\ res' = [res EXCEPT ![who] = Some(q)]
        /\ out' = Returned("line_matches", who, "", q.line_matches)
    /\ UNCHANGED <<text, args, fs, cat, lru, hashes, nstr, th, locks>>

\* result.matched_lines
MatchedLines(who) ==
    /\ ~IsNone(res[who])
    /\ LET q == WithMatchedLines(Get(res[who])) IN
        /\ res' = [res EXCEPT ![who] = Some(q)]
        /\ out' = Returned("matched_lines", who, "", q.matched_lines)
    /\ UNCHANGED <<text, args, fs, cat, lru, hashes, nstr, th, locks>>

\* cat(*args): every path is read in order; a path that cannot be read
\* raises and no result is made.
Cat ==
    /\ IsNone(cat)
    /\ Len(args) >= 1
    /\ LET paths == [i \in 1..Len(args) |-> ToPath(args[i])] IN
       IF \E i \in 1..Len(paths) : IsNone(fs[paths[i].path])
          THEN /\ out' = Raised("cat", "FileNotFoundError")
               /\ cat' = cat
          ELSE /\ cat' = Some(NewCatResult(paths,
                            [i \in 1..Len(paths) |-> Get(fs[paths[i].path])]))
               /\ out' = Returned("cat", "cat", "", None)
    /\ UNCHANGED <<text, args, fs, res, lru, hashes, nstr, th, locks>>

\* str(cat_result)
CatStr ==
    /\ ~IsNone(cat)
    /\ LET c == CatWithStr(Get(cat)) IN
        /\ cat' = Some(c)
        /\ out' = Returned("str", "cat", "", c.str)
    /\ nstr' = Bump("cat", Get(cat))
    /\ UNCHANGED <<text, args, fs, res, lru, hashes, th, locks>>

\* cat_result.file().read(): a fresh view, read to its end
CatFileRead ==
    /\ ~IsNone(cat)
    /\ LET c == CatWithStr(Get(cat)) IN
        /\ cat' = Some(c)
        /\ out' = Returned("file.read", "cat", "", Some(ReadAll(StringIO(Get(c.str)))))
    /\ nstr' = Bump("cat", Get(cat))
    /\ UNCHANGED <<text, args, fs, res, lru, hashes, th, locks>>

\* text | grep(p, highlight=h) in a session that cats no files
PipeString(p, h) ==
    /\ Len(args) = 0
    /\ Pipe("r1", "text", p, h)

\* One session: a string, or a cat of files, piped through one grep.
Next ==
    \/ \E p \in Patterns, h \in BOOLEAN : PipeString(p, h)
    \/ \E p \in CatPatterns, h \in BOOLEAN : Pipe("r1", "cat", p, h)
    \/ Str("r1")
    \/ Repr("r1")
    \/ Bool("r1")
    \/ \E other \in {"text", "cat"} : Eq("r1", other)
    \/ LineMatches("r1")
    \/ MatchedLines("r1")
    \/ Cat
    \/ CatStr
    \/ CatFileRead

Spec == Init /\ [][Next]_vars

\* ----------------------------------------------------- two-stage sessions
ChainTexts == SeqsUpTo(Alphabet, MaxChainTextLen) \cup {Scenario5Text}
ChainPatterns == SeqsUpTo(Alphabet, MaxPatLen)
LatePatterns == SeqsUpTo(Alphabet, MaxLatePatLen)

InitChain == InitText(ChainTexts)

\* text | g | g: the grep object of the first stage is used again
PipeAgain ==
    /\ ~IsNone(res["r1"])
    /\ Pipe("r2", "r1", Get(res["r1"]).pattern, Get(res["r1"]).highlight)

\* A string piped through the same grep twice.
NextChain ==
    \/ \E p \in ChainPatterns, h \in BOOLEAN : Pipe("r1", "text", p, h)
    \/ PipeAgain
    \/ \E who \in Stages : Str(who)
    \/ \E who \in Stages : Bool(who)
    \/ \E who \in Stages : MatchedLines(who)
    \/ Eq("r2", "r1")

SpecChain == InitChain /\ [][NextChain]_vars

\* Two results, of the same string or one of the other, that are hashed.
NextHash ==
    \/ \E p \in LatePatterns \cup {PatThis}, h \in BOOLEAN : Pipe("r1", "text", p, h)
    \/ \E src \in {"text", "r1"}, p \in LatePatterns \cup {PatWell}, h \in BOOLEAN :
            Pipe("r2", src, p, h)
    \/ \E who \in Stages : Hash(who)

SpecHash == InitChain /\ [][NextHash]_vars

\* ---------------------------------------------------------------- threads
\* str(obj) called from several threads.  A thread switch can happen
\* between any two of the steps below.
ObjExists(obj) == IF obj = "cat" THEN ~IsNone(cat) ELSE ~IsNone(res[obj])
StrSlot(obj) == IF obj = "cat" THEN Get(cat).str ELSE Get(res[obj]).str
CacheGet(obj, prop) ==
    IF prop = "matched_lines" THEN Get(res[obj]).matched_lines
    ELSE Get(res[obj]).line_matches

\* the thread after cached_property.__get__ of prop returned v: to the
\* caller that read the attribute, to the body of matched_lines, which read
\* self.line_matches, or to __str__, which read self.matched_lines
AfterGet(me, prop, v) ==
    IF prop = me.top
        THEN [IdleThread EXCEPT !.top = me.top, !.obj = me.obj, !.ret = v]
    ELSE IF prop = "line_matches"
        THEN [me EXCEPT !.lm = v, !.pc = "fill", !.prop = "matched_lines"]
        ELSE [me EXCEPT !.val = v, !.pc = "assign", !.prop = ""]

\* a thread calls str(obj)
Call(t, obj) ==
    /\ th[t].pc = "idle"
    /\ ObjExists(obj)
    /\ th' = [th EXCEPT ![t] =
                [IdleThread EXCEPT !.pc = "check", !.top = "str", !.obj = obj]]
    /\ UNCHANGED <<text, args, fs, cat, res, lru, hashes, out, nstr, locks>>

\* a thread reads obj.line_matches or obj.matched_lines
ReadProperty(t, obj, prop) ==
    /\ th[t].pc = "idle"
    /\ obj \in Stages
    /\ ObjExists(obj)
    /\ th' = [th EXCEPT ![t] =
                [IdleThread EXCEPT !.pc = "get", !.top = prop, !.prop = prop,
                                   !.obj = obj]]
    /\ UNCHANGED <<text, args, fs, cat, res, lru, hashes, out, nstr, locks>>

\* __str__: if self._str is None
StrCheck(t) ==
    /\ th[t].pc = "check"
    /\ th' = [th EXCEPT ![t] =
                IF ~IsNone(StrSlot(th[t].obj)) THEN [@ EXCEPT !.pc = "return"]
                ELSE IF th[t].obj = "cat"
                    THEN [@ EXCEPT !.pc = "assign", !.val = Some(Get(cat).contents)]
                    ELSE [@ EXCEPT !.pc = "get", !.prop = "matched_lines"]]
    /\ UNCHANGED <<text, args, fs, cat, res, lru, hashes, out, nstr, locks>>

\* cached_property.__get__: val = cache.get(self.attrname, _NOT_FOUND)
PropGet(t) ==
    /\ th[t].pc = "get"
    /\ LET v == CacheGet(th[t].obj, th[t].prop) IN
       th' = [th EXCEPT ![t] =
                IF IsNone(v) THEN [@ EXCEPT !.pc = "lock"]
                ELSE AfterGet(@, th[t].prop, v)]
    /\ UNCHANGED <<text, args, fs, cat, res, lru, hashes, out, nstr, locks>>

\* with self.lock: the RLock is free or already this thread's
PropLock(t) ==
    /\ th[t].pc = "lock"
    /\ locks[th[t].prop].owner \in {0, t}
    /\ locks' = [locks EXCEPT ![th[t].prop] = [owner |-> t, count |-> @.count + 1]]
    /\ th' = [th EXCEPT ![t].pc = "recheck"]
    /\ UNCHANGED <<text, args, fs, cat, res, lru, hashes, out, nstr>>

\* Faulty variant of PropRecheck: no second cache.get under the lock
PropRecheckSkipped(t) ==
    /\ th[t].pc = "recheck"
    /\ th' = [th EXCEPT ![t] =
                IF th[t].prop = "matched_lines"
                    THEN [@ EXCEPT !.pc = "get", !.prop = "line_matches"]
                    ELSE [@ EXCEPT !.pc = "fill"]]
    /\ UNCHANGED <<text, args, fs, cat, res, lru, hashes, out, nstr, locks>>

\* the second cache.get, under the lock; on a miss self.func(instance)
\* starts, and that of matched_lines reads self.line_matches
PropRecheck(t) ==
    /\ th[t].pc = "recheck"
    /\ LET v == CacheGet(th[t].obj, th[t].prop) IN
       th' = [th EXCEPT ![t] =
                IF ~IsNone(v) THEN [@ EXCEPT !.val = v, !.pc = "unlock"]
                ELSE IF th[t].prop = "matched_lines"
                    THEN [@ EXCEPT !.pc = "get", !.prop = "line_matches"]
                    ELSE [@ EXCEPT !.pc = "fill"]]
    /\ UNCHANGED <<text, args, fs, cat, res, lru, hashes, out, nstr, locks>>

\* val = self.func(instance); cache[self.attrname] = val
PropFill(t) ==
    /\ th[t].pc = "fill"
    /\ LET r == Get(res[th[t].obj])
           v == IF th[t].prop = "line_matches"
                    THEN ComputeLineMatches(r.input, r.matches)
                    ELSE ComputeMatchedLines(r.input, Get(th[t].lm))
       IN /\ res' = [res EXCEPT ![th[t].obj] =
                        Some(IF th[t].prop = "line_matches"
                                THEN [r EXCEPT !.line_matches = Some(v)]
                                ELSE [r EXCEPT !.matched_lines = Some(v)])]
          /\ th' = [th EXCEPT ![t].val = Some(v), ![t].pc = "unlock"]
    /\ UNCHANGED <<text, args, fs, cat, lru, hashes, out, nstr, locks>>

\* the end of the with block, and return val
PropUnlock(t) ==
    /\ th[t].pc = "unlock"
    /\ locks' = [locks EXCEPT ![th[t].prop] =
                    IF @.count = 1 THEN [owner |-> 0, count |-> 0]
                    ELSE [@ EXCEPT !.count = @ - 1]]
    /\ th' = [th EXCEPT ![t] = AfterGet(@, th[t].prop, th[t].val)]
    /\ UNCHANGED <<text, args, fs, cat, res, lru, hashes, out, nstr>>

\* self._str = ''.join(...)
StrAssign(t) ==
    /\ th[t].pc = "assign"
    /\ LET v == Some(Join(Get(th[t].val))) IN
       IF th[t].obj = "cat"
          THEN /\ cat' = Some([Get(cat) EXCEPT !.str = v])
               /\ res' = res
          ELSE /\ res' = [res EXCEPT ![th[t].obj] = Some([Get(@) EXCEPT !.str = v])]
               /\ cat' = cat
    /\ nstr' = [nstr EXCEPT ![th[t].obj] = @ + 1]
    /\ th' = [th EXCEPT ![t].pc = "return"]
    /\ UNCHANGED <<text, args, fs, lru, hashes, out, locks>>

\* return self._str
StrReturn(t) ==
    /\ th[t].pc = "return"
    /\ th' = [th EXCEPT ![t] = [IdleThread EXCEPT !.ret = StrSlot(th[t].obj)]]
    /\ UNCHANGED <<text, args, fs, cat, res, lru, hashes, out, nstr, locks>>

\* The objects the threads share: the result of a grep with matches on two
\* lines, one of a grep without a match, and a cat of two files.
RaceTexts == {<<"a", NL, ".", NL, "a">>, <<".">>}
RacePatterns == {<<"a">>}
RaceArgLists == {<<"f", "g">>}
RaceFileTexts == {<<"a", NL>>}

InitRace == InitText(RaceTexts) \/ InitCat(RaceArgLists, RaceFileTexts)

NextRace ==
    \/ \E p \in RacePatterns : Pipe("r1", "text", p, TRUE)
    \/ Cat
    \/ \E t \in Threads, obj \in {"r1", "cat"} : Call(t, obj)
    \/ \E t \in Threads : StrCheck(t)
    \/ \E t \in Threads : PropGet(t)
    \/ \E t \in Threads : PropLock(t)
    \/ \E t \in Threads : PropRecheck(t)
    \/ \E t \in Threads : PropFill(t)
    \/ \E t \in Threads : PropUnlock(t)
    \/ \E t \in Threads : StrAssign(t)
    \/ \E t \in Threads : StrReturn(t)

SpecRace == InitRace /\ [][NextRace]_vars

\* Threads that share one GrepResult and read its cached properties, directly
\* or through str().
InitGet == InitText(RaceTexts)

NextGet ==
    \/ \E p \in RacePatterns : Pipe("r1", "text", p, TRUE)
    \/ \E t \in Threads : Call(t, "r1")
    \/ \E t \in Threads, prop \in Properties : ReadProperty(t, "r1", prop)
    \/ \E t \in Threads : StrCheck(t)
    \/ \E t \in Threads : PropGet(t)
    \/ \E t \in Threads : PropLock(t)
    \/ \E t \in Threads : PropRecheck(t)
    \/ \E t \in Threads : PropFill(t)
    \/ \E t \in Threads : PropUnlock(t)
    \/ \E t \in Threads : StrAssign(t)
    \/ \E t \in Threads : StrReturn(t)

SpecGet == InitGet /\ [][NextGet]_vars

\* ================================================================ claims
\* What the statements below are phrased in, computed from the text alone.

\* the pattern p stands in text t at offset s
Occurs(p, t, s) ==
    /\ s + Len(p) <= Len(t)
    /\ \A k \in 1..Len(p) : t[s + k] = p[k]

\* The lines of t, each with its terminator when it has one: line k is
\* t[LineStart .. LineEnd), and a text that ends in a terminator has no
\* empty line after it.
LineStartOffsets(t) == {s \in 0..(Len(t) - 1) : s = 0 \/ t[s] = NL}
LineEndOffset(t, s) ==
    IF \E e \in (s + 1)..Len(t) : t[e] = NL
        THEN CHOOSE e \in (s + 1)..Len(t) :
                t[e] = NL /\ \A f \in (s + 1)..(e - 1) : t[f] # NL
        ELSE Len(t)

RECURSIVE SortedSeq(_)
SortedSeq(S) ==
    IF S = {} THEN <<>>
    ELSE LET m == CHOOSE x \in S : \A y \in S : x <= y IN <<m>> \o SortedSeq(S \ {m})

StripMarkers(s) == SelectSeq(s, LAMBDA c : c \notin {ANSI_RED, ANSI_RESET})

Present(w) == ~IsNone(res[w])
R(w) == Get(res[w])

\* C1: the spans of grep._match(P, T) ascend strictly, do not overlap, each
\* covers a substring of T equal to P character for character, and are the
\* occurrences a left-to-right scan finds that resumes at the end of the
\* span before: no occurrence that starts at or after that end is skipped.
C1_SpansOf(p, t, ms) ==
    /\ \A i \in 1..Len(ms) :
          /\ ms[i].end = ms[i].start + Len(p)
          /\ Occurs(p, t, ms[i].start)
          /\ \A s \in (IF i = 1 THEN 0 ELSE ms[i - 1].end)..(ms[i].start - 1) :
                ~Occurs(p, t, s)
    /\ \A i \in 1..(Len(ms) - 1) :
          ms[i].start < ms[i + 1].start /\ ms[i].end <= ms[i + 1].start
    /\ \A s \in (IF Len(ms) = 0 THEN 0 ELSE ms[Len(ms)].end)..Len(t) :
          ~Occurs(p, t, s)

C1_MatchSpans ==
    \A w \in Stages : Present(w) => C1_SpansOf(R(w).pattern, R(w).input, R(w).matches)

\* a pattern with a metacharacter, matched twice, with an occurrence that
\* overlaps a reported span and is not reported
C1_Witness ==
    /\ Present("r1")
    /\ "." \in {R("r1").pattern[k] : k \in 1..Len(R("r1").pattern)}
    /\ Len(R("r1").matches) >= 1
    /\ \E s \in 0..Len(R("r1").input) :
          /\ Occurs(R("r1").pattern, R("r1").input, s)
          /\ \A i \in 1..Len(R("r1").matches) : R("r1").matches[i].start # s

\* the lines of t that a span of ms lies on, wholly or in part
Touched(t, ms, s) ==
    \E i \in 1..Len(ms) : ms[i].start < LineEndOffset(t, s) /\ ms[i].end > s
LinesWithMatch(t, ms) ==
    LET starts == SortedSeq({s \in LineStartOffsets(t) : Touched(t, ms, s)})
    IN [i \in 1..Len(starts) |-> Slice(t, starts[i], LineEndOffset(t, starts[i]))]

\* the lines of t on which a span of ms starts
LinesWithMatchStart(t, ms) ==
    LET starts == SortedSeq({s \in LineStartOffsets(t) :
                    \E i \in 1..Len(ms) :
                        s <= ms[i].start /\ ms[i].start < LineEndOffset(t, s)})
    IN [i \in 1..Len(starts) |-> Slice(t, starts[i], LineEndOffset(t, starts[i]))]

\* C2: matched_lines of (T | grep(P)) is the sequence of the lines of T that
\* contain at least one match, in ascending order, each once, each with its
\* terminator when T has one there; str(result) is their concatenation.
C2_MatchedLines ==
    \A w \in Stages : Present(w) =>
        /\ ~IsNone(R(w).matched_lines) =>
              Get(R(w).matched_lines) = LinesWithMatch(R(w).input, R(w).matches)
        /\ ~IsNone(R(w).str) =>
              Get(R(w).str) = Join(LinesWithMatch(R(w).input, R(w).matches))

\* what the code does instead: the lines on which a match starts
C2_LinesOfMatchStarts ==
    \A w \in Stages : Present(w) =>
        /\ ~IsNone(R(w).matched_lines) =>
              Get(R(w).matched_lines) = LinesWithMatchStart(R(w).input, R(w).matches)
        /\ ~IsNone(R(w).str) =>
              Get(R(w).str) = Join(LinesWithMatchStart(R(w).input, R(w).matches))

HasNL(s) == \E k \in 1..Len(s) : s[k] = NL
ReprOf(w) == out.op = "repr" /\ out.who = w /\ Present(w)

\* C3: with highlight on, repr(result) without its markers is str(result).
C3_ReprRoundTrip ==
    \A w \in Stages : ReprOf(w) /\ R(w).highlight =>
        StripMarkers(Get(out.val)) = Get(R(w).str)

\* what the code gives when no match spans a line terminator: _colorized()
\* without its markers is str(result), and repr(result), which is
\* _colorized().rstrip('\n'), without its markers is str(result).rstrip('\n')
C3_ColorizedRoundTrip ==
    \A w \in Stages : ReprOf(w) /\ R(w).highlight /\ ~HasNL(R(w).pattern) =>
        /\ ~IsNone(lru)
        /\ StripMarkers(Get(lru).val) = Get(R(w).str)
        /\ Get(out.val) = RStripNL(Get(lru).val)
        /\ StripMarkers(Get(out.val)) = RStripNL(Get(R(w).str))

\* a highlighted repr of a result whose last matched line ends in a
\* terminator, with two matches
C3_Witness ==
    /\ ReprOf("r1") /\ R("r1").highlight /\ ~HasNL(R("r1").pattern)
    /\ Len(R("r1").matches) >= 2
    /\ Len(Get(R("r1").str)) > 0
    /\ Get(R("r1").str)[Len(Get(R("r1").str))] = NL
    /\ Get(out.val) # Get(R("r1").str)

\* every line of t has an occurrence of p within it
EveryLineContains(p, t) ==
    \A s \in LineStartOffsets(t) :
        \E k \in s..(LineEndOffset(t, s) - Len(p)) : Occurs(p, t, k)

OperandStr(y) ==
    IF y = "text" THEN text
    ELSE IF y = "cat" THEN Get(Get(cat).str)
    ELSE Get(R(y).str)

\* C4: result == Y is str(result) == str(Y), and (T | grep(P)) == T when
\* every line of T contains P, also when T is the joined text of a cat.
C4_Equality ==
    \A w \in Stages : out.op = "eq" /\ out.who = w /\ Present(w) =>
        /\ Get(out.val) = (Get(R(w).str) = OperandStr(out.arg))
        /\ (OperandStr(out.arg) = R(w).input
            /\ EveryLineContains(R(w).pattern, R(w).input)) => Get(out.val)

\* a cat of the same file twice, every line with the pattern, compared
C4_Witness ==
    /\ out.op = "eq" /\ out.who = "r1" /\ out.arg = "cat" /\ Present("r1")
    /\ Len(Get(cat).contents) >= 2
    /\ Get(cat).contents[1] = Get(cat).contents[2]
    /\ Len(R("r1").input) > 0
    /\ EveryLineContains(R("r1").pattern, R("r1").input)
    /\ Get(out.val)

\* C5: R2 = (T | grep(P)) | grep(P) equals R1 = T | grep(P), in str and in
\* matched_lines, and is truthy when R1 is.
C5_FixedPoint ==
    Present("r2") =>
        /\ out.op = "eq" => Get(out.val)
        /\ (~IsNone(R("r1").str) /\ ~IsNone(R("r2").str)) =>
              R("r1").str = R("r2").str
        /\ (~IsNone(R("r1").matched_lines) /\ ~IsNone(R("r2").matched_lines)) =>
              R("r1").matched_lines = R("r2").matched_lines
        /\ (out.op = "bool" /\ out.who = "r2" /\ BoolOf(R("r1"))) => Get(out.val)

\* C6: bool(result) is true exactly when the result has a match span; with
\* no match matched_lines and str(result) are empty, with one str(result)
\* is not empty.
C6_BooleanLaw ==
    \A w \in Stages : Present(w) =>
        /\ (out.op = "bool" /\ out.who = w) =>
              Get(out.val) = (Len(R(w).matches) > 0)
        /\ Len(R(w).matches) = 0 =>
              /\ ~IsNone(R(w).matched_lines) => Get(R(w).matched_lines) = <<>>
              /\ ~IsNone(R(w).str) => Get(R(w).str) = <<>>
        /\ Len(R(w).matches) > 0 =>
              (~IsNone(R(w).str) => Get(R(w).str) # <<>>)

\* a falsy result of a text that is not empty, its str computed
C6_Witness ==
    /\ out.op = "bool" /\ out.who = "r1" /\ Present("r1")
    /\ ~Get(out.val)
    /\ Len(R("r1").input) > 0
    /\ ~IsNone(R("r1").str)

\* C7: the hash key is the pair (str, pattern): two results have the same
\* key exactly when both their str and their pattern agree, whatever their
\* input, spans or highlight.
C7_HashKey ==
    (Present("r1") /\ Present("r2")
     /\ ~IsNone(hashes["r1"]) /\ ~IsNone(hashes["r2"])) =>
        ((Get(hashes["r1"]) = Get(hashes["r2"])) <=>
            (R("r1").str = R("r2").str /\ R("r1").pattern = R("r2").pattern))

\* Scenario 5: the same str, "This" and "we'll", two keys
C7_Witness ==
    /\ Present("r1") /\ Present("r2")
    /\ ~IsNone(hashes["r1"]) /\ ~IsNone(hashes["r2"])
    /\ R("r1").input = Scenario5Text /\ R("r2").input = Scenario5Text
    /\ R("r1").pattern = PatThis /\ R("r2").pattern = PatWell
    /\ Get(R("r1").str) = Scenario5Text /\ R("r1").str = R("r2").str
    /\ Get(hashes["r1"]) # Get(hashes["r2"])

\* C8: the _str slot of an object is assigned at most once, whatever the
\* interleaving of the threads that call str() on it.
C8_StrAssignedOnce ==
    \A o \in DOMAIN nstr : nstr[o] <= 1

Scenario2(w) ==
    /\ Present(w)
    /\ R(w).input = Scenario2Text
    /\ R(w).pattern = PatI
    /\ ~IsNone(R(w).matched_lines)

\* C9 as stated: Scenario 2 gives the matched lines "this\n" and "is\n".
C9_Scenario2TwoLines ==
    Scenario2("r1") =>
        Get(R("r1").matched_lines) = <<<<"t","h","i","s",NL>>, <<"i","s",NL>>>>

\* C9 as amended: Scenario 2 gives "this\n", "is\n" and "string\n".
C9_Scenario2ThreeLines ==
    Scenario2("r1") =>
        Get(R("r1").matched_lines) =
            <<<<"t","h","i","s",NL>>, <<"i","s",NL>>,
              <<"s","t","r","i","n","g",NL>>>>

C9_Witness == Scenario2("r1") /\ out.op = "matched_lines"

RECURSIVE ContentsOf(_)
\* the contents of the named files, one after the other
ContentsOf(names) ==
    IF Len(names) = 0 THEN <<>>
    ELSE Get(fs[Head(names)]) \o ContentsOf(Tail(names))

\* C10: the CatResult of n >= 1 readable sources has n paths and n
\* contents in argument order, and str(result) and file().read() are the
\* contents one after the other with nothing between them.
C10_Cat ==
    ~IsNone(cat) =>
        /\ Len(args) >= 1
        /\ Len(Get(cat).paths) = Len(args)
        /\ Len(Get(cat).contents) = Len(args)
        /\ \A i \in 1..Len(args) :
              /\ Get(cat).paths[i] = ToPath(args[i])
              /\ Get(cat).contents[i] = Get(fs[args[i]])
        /\ ~IsNone(Get(cat).str) => Get(Get(cat).str) = ContentsOf(args)
        /\ (out.op = "file.read" \/ (out.op = "str" /\ out.who = "cat")) =>
              Get(out.val) = ContentsOf(args)

\* two different files, the second argument first, read through file()
C10_Witness ==
    /\ ~IsNone(cat)
    /\ out.op = "file.read"
    /\ args = <<"g", "f">>
    /\ Len(Get(fs["f"])) >= 1
    /\ Get(out.val) = OtherFileText \o Get(fs["f"])

\* what self.func(instance) returns for a property of the result r
FuncValue(r, prop) ==
    IF prop = "line_matches" THEN ComputeLineMatches(r.input, r.matches)
    ELSE ComputeMatchedLines(r.input, ComputeLineMatches(r.input, r.matches))

\* a thread inside the with block of prop's __get__, the body of the
\* wrapped function included
InWith(t, prop) ==
    \/ th[t].prop = prop /\ th[t].pc \in {"recheck", "fill", "unlock"}
    \/ /\ prop = "matched_lines" /\ th[t].prop = "line_matches"
       /\ th[t].top # "line_matches"
       /\ th[t].pc \in {"get", "lock", "recheck", "fill", "unlock"}

\* the states of C11: a thread inside the with block of a property owns its
\* lock, so no two threads are there together; a filled slot holds what the
\* wrapped function returns; a reader that returned has the stored value.
C11_States ==
    /\ \A t \in Threads, prop \in Properties :
          InWith(t, prop) => locks[prop].owner = t
    /\ \A prop \in Properties :
          (Present("r1") /\ ~IsNone(CacheGet("r1", prop))) =>
              Get(CacheGet("r1", prop)) = FuncValue(R("r1"), prop)
    /\ \A t \in Threads :
          /\ (th[t].pc = "idle" /\ th[t].top \in Properties) =>
                th[t].ret = CacheGet(th[t].obj, th[t].top) /\ ~IsNone(th[t].ret)
          /\ (th[t].pc = "fill" /\ th[t].prop = "matched_lines") =>
                th[t].lm = CacheGet(th[t].obj, "line_matches") /\ ~IsNone(th[t].lm)
          /\ (th[t].pc = "assign" /\ th[t].obj \in Stages) =>
                th[t].val = CacheGet(th[t].obj, "matched_lines") /\ ~IsNone(th[t].val)

\* the step of thread t from one place of its call to another
Moves(t, from, to) == th[t].pc = from /\ th'[t].pc = to

\* the steps of C11: the wrapped function runs and its value is stored
\* (fill) only while the slot is empty; a filled slot is never written
\* again; a thread comes to wait for the lock only from a first cache.get
\* that found the slot empty, and a first cache.get that finds the slot
\* filled touches no lock; the lock is taken only when free or the thread's.
C11_Steps ==
    \A t \in Threads :
        /\ Moves(t, "fill", "unlock") => IsNone(CacheGet(th[t].obj, th[t].prop))
        /\ \A prop \in Properties :
              (Present("r1") /\ ~IsNone(CacheGet("r1", prop))) =>
                  Get(res'["r1"])[prop] = Get(res["r1"])[prop]
        /\ (th[t].pc = "get" /\ th'[t].pc # "get"
            /\ ~IsNone(CacheGet(th[t].obj, th[t].prop))) =>
              locks' = locks /\ th'[t].pc \notin {"lock", "recheck"}
        /\ (th'[t].pc = "lock" /\ th[t].pc # "lock") =>
              th[t].pc = "get" /\ IsNone(CacheGet(th[t].obj, th[t].prop))
        /\ Moves(t, "lock", "recheck") =>
              /\ locks[th[t].prop].owner \in {0, t}
              /\ locks'[th[t].prop].owner = t

\* C11: under every interleaving of threads that read a cached property of
\* one instance for the first time, the wrapped function is invoked at most
\* once: a thread that finds the slot empty takes the property's lock,
\* re-checks, and computes and stores only if the slot is still empty; every
\* reader returns the one stored value; a read of a filled slot takes no lock.
C11_GetOnce == []C11_States /\ [][C11_Steps]_vars

\* two threads read line_matches for the first time and both found the slot
\* empty: one has filled it and returned, the other now holds the lock and
\* is about to re-check
C11_Witness ==
    \E t, u \in Threads :
        /\ t # u
        /\ th[t].pc = "recheck" /\ th[t].prop = "line_matches"
        /\ th[t].top = "line_matches"
        /\ locks["line_matches"].owner = t
        /\ ~IsNone(CacheGet("r1", "line_matches"))
        /\ Len(Get(CacheGet("r1", "line_matches"))) >= 2
        /\ th[u].pc = "idle" /\ th[u].top = "line_matches" /\ ~IsNone(th[u].ret)

====
